---- MODULE Spec2Model ----
(***************************************************************************)
(* Model of whatsapp_transcribe.py: the filename date parser, the ffmpeg   *)
(* conversion step and the batch orchestrator main().                      *)
(*                                                                         *)
(* Strings are sequences of character codes, so that lower(), splitext(),  *)
(* endswith(), split() and the regular expression are computed, and        *)
(* compared, the way Python computes them.  A datetime is the tuple        *)
(* <<year, month, day, hour, minute, second>>.                             *)
(***************************************************************************)
EXTENDS Integers, Sequences, FiniteSets, TLC

VARIABLES
    pc,                     \* position of main() (or of the parser harness)
    run,                    \* number of the current run of main()
    envSet, envPath,        \* os.environ: is PATH present, and its value
    pathBeforeSet, pathBefore, \* PATH as it was when the run started
    original_path, path_modified,  \* locals of main()
    listing,                \* what os.listdir(AUDIO_DIR) returns
    opus_files,             \* local of main(): list of (dt, item)
    idx,                    \* loop position in opus_files (i of enumerate, 1-based)
    processed_transcripts,  \* local of main(): list of (base_name, path)
    wavFiles,               \* WAV_FILES_DIR: file name -> the item the .wav was made from
    txtWritten,             \* transcripts this run wrote: file name -> the audio transcribed
    combinedWritten,        \* the combined document this run wrote: its entries, or Absent
    log,                    \* what this run did so far, in order
    filename, parsed,       \* input and result of parse_datetime_from_filename
    given                   \* how filename was spelled: its shape and six fields

vars == <<pc, run, envSet, envPath, pathBeforeSet, pathBefore, original_path,
          path_modified, listing, opus_files, idx, processed_transcripts,
          wavFiles, txtWritten, combinedWritten, log, filename, parsed, given>>

mainVars == <<run, envSet, envPath, pathBeforeSet, pathBefore, original_path,
              path_modified, listing, opus_files, idx, processed_transcripts,
              wavFiles, txtWritten, combinedWritten, log>>

-----------------------------------------------------------------------------
(* Bounds *)
MaxFiles == 2        \* files in the audio directory
MaxFilesEnv == 1     \* the same, where every state of PATH is explored
MaxRuns == 2         \* consecutive runs of main() over the same directory

-----------------------------------------------------------------------------
(* Characters and strings *)
ChDot == 46
ChDash == 45
ChSpace == 32
ChSemi == 59
ChUnder == 95

IsDigit(c) == c \in 48..57

D2(n) == <<48 + (n \div 10), 48 + (n % 10)>>
D4(n) == <<48 + (n \div 1000), 48 + ((n \div 100) % 10),
           48 + ((n \div 10) % 10), 48 + (n % 10)>>

StrAt == <<32, 97, 116, 32>>                 \* " at "
ExtOpus == <<46, 111, 112, 117, 115>>        \* ".opus"
ExtOpusUpper == <<46, 79, 80, 85, 83>>       \* ".OPUS"
ExtTxt == <<46, 116, 120, 116>>              \* ".txt"

\* str.lower() on ASCII
LowerChar(c) == IF c \in 65..90 THEN c + 32 ELSE c
Lower(s) == [k \in 1..Len(s) |-> LowerChar(s[k])]

\* str.endswith(suffix)
EndsWith(s, suf) ==
    /\ Len(s) >= Len(suf)
    /\ SubSeq(s, Len(s) - Len(suf) + 1, Len(s)) = suf

\* os.path.splitext(name)[0]: cut at the last dot, unless the name has no
\* dot or only leading dots
LeadingDots(s) ==
    IF \E k \in 1..Len(s) : s[k] # ChDot
    THEN (CHOOSE k \in 1..Len(s) : s[k] # ChDot /\ \A j \in 1..(k-1) : s[j] = ChDot) - 1
    ELSE Len(s)
LastDot(s) ==
    IF \E k \in 1..Len(s) : s[k] = ChDot
    THEN CHOOSE k \in 1..Len(s) : s[k] = ChDot /\ \A j \in (k+1)..Len(s) : s[j] # ChDot
    ELSE 0
BaseName(s) ==
    IF LastDot(s) > LeadingDots(s) THEN SubSeq(s, 1, LastDot(s) - 1) ELSE s

\* str.split(sep) for a one-character separator: always at least one piece
RECURSIVE Split(_, _)
Split(s, sep) ==
    IF \E k \in 1..Len(s) : s[k] = sep
    THEN LET k == CHOOSE j \in 1..Len(s) : s[j] = sep /\ \A h \in 1..(j-1) : s[h] # sep
         IN <<SubSeq(s, 1, k - 1)>> \o Split(SubSeq(s, k + 1, Len(s)), sep)
    ELSE <<s>>

\* lexicographic order of two tuples of integers (str < str, datetime < datetime)
\* a is smaller at the first place where they differ, or a is a proper prefix
SeqLess(a, b) ==
    \E k \in 1..Len(b) :
        /\ k <= Len(a) + 1
        /\ \A j \in 1..(k - 1) : a[j] = b[j]
        /\ k <= Len(a) => a[k] < b[k]

-----------------------------------------------------------------------------
(* parse_datetime_from_filename *)

\* the regular expression (\d{4})-(\d{2})-(\d{2}) at (\d{2})\.(\d{2})\.(\d{2})
\* matched at position p
PatternLen == 22
MatchAt(s, p) ==
    /\ p + PatternLen - 1 <= Len(s)
    /\ \A k \in {0, 1, 2, 3, 5, 6, 8, 9, 14, 15, 17, 18, 20, 21} : IsDigit(s[p + k])
    /\ s[p + 4] = ChDash
    /\ s[p + 7] = ChDash
    /\ SubSeq(s, p + 10, p + 13) = StrAt
    /\ s[p + 16] = ChDot
    /\ s[p + 19] = ChDot

\* re.search: the leftmost match, 0 when there is none
Search(s) ==
    IF \E p \in 1..Len(s) : MatchAt(s, p)
    THEN CHOOSE p \in 1..Len(s) : MatchAt(s, p) /\ \A q \in 1..(p-1) : ~MatchAt(s, q)
    ELSE 0

\* int() of a group of n digits starting at p
RECURSIVE IntOf(_, _, _)
IntOf(s, p, n) ==
    IF n = 0 THEN 0 ELSE 10 * IntOf(s, p, n - 1) + (s[p + n - 1] - 48)

\* map(int, match.groups())
Groups(s, p) ==
    <<IntOf(s, p, 4), IntOf(s, p + 5, 2), IntOf(s, p + 8, 2),
      IntOf(s, p + 14, 2), IntOf(s, p + 17, 2), IntOf(s, p + 20, 2)>>

\* datetime(...) raises ValueError unless the fields are in range
MINYEAR == 1
MAXYEAR == 9999
IsLeap(y) == y % 4 = 0 /\ (y % 100 # 0 \/ y % 400 = 0)
DaysInMonthTable == <<31, 28, 31, 30, 31, 30, 31, 31, 30, 31, 30, 31>>
DaysInMonth(y, m) == IF m = 2 /\ IsLeap(y) THEN 29 ELSE DaysInMonthTable[m]
DatetimeAccepts(g) ==
    /\ MINYEAR <= g[1] /\ g[1] <= MAXYEAR
    /\ 1 <= g[2] /\ g[2] <= 12
    /\ 1 <= g[3] /\ g[3] <= DaysInMonth(g[1], g[2])
    /\ 0 <= g[4] /\ g[4] <= 23
    /\ 0 <= g[5] /\ g[5] <= 59
    /\ 0 <= g[6] /\ g[6] <= 59

NoInput == [shape |-> "", fields |-> <<>>]
NoDatetime == [kind |-> "none", dt |-> <<>>]
Raised == [kind |-> "raise", dt |-> <<>>]

\* what the try/except around the constructor yields for a rejected value:
\* None (lines 48-49); without the except clause the ValueError would leave
\* the function
OnValueErrorPropagate == Raised
OnValueError == NoDatetime

parse_datetime_from_filename(s) ==
    LET p == Search(s) IN
    IF p # 0
    THEN IF DatetimeAccepts(Groups(s, p))
         THEN [kind |-> "datetime", dt |-> Groups(s, p)]
         ELSE OnValueError
    ELSE NoDatetime

-----------------------------------------------------------------------------
(* Configuration of the script and its environment *)

PathSep == <<59>>                                   \* os.pathsep, ";"
FFMPEG_DIR == <<68, 58, 92, 70, 92, 98, 105, 110>>  \* "D:\F\bin"
OtherDir == <<67, 58, 92, 87>>                      \* "C:\W"

\* what os.environ may hold for PATH when main() starts
PathIs(v) == [set |-> TRUE, val |-> v]
PathUnset == [set |-> FALSE, val |-> <<>>]
PathStarts ==
    { PathUnset,
      PathIs(<<>>),                                   \* ""
      PathIs(OtherDir),                               \* "C:\W"
      PathIs(Lower(FFMPEG_DIR)),                      \* "d:\f\bin"
      PathIs(OtherDir \o PathSep \o FFMPEG_DIR) }     \* "C:\W;D:\F\bin"

Stamp(y, mo, d, h, mi, s) ==
    D4(y) \o <<ChDash>> \o D2(mo) \o <<ChDash>> \o D2(d) \o StrAt
          \o D2(h) \o <<ChDot>> \o D2(mi) \o <<ChDot>> \o D2(s)

\* the files the audio directory may hold
FileTenB == Stamp(2025, 5, 25, 10, 0, 0) \o <<ChUnder, 98>> \o ExtOpus       \* "2025-05-25 at 10.00.00_b.opus"
FileNineC == Stamp(2025, 5, 25, 9, 0, 0) \o <<ChUnder, 99>> \o ExtOpus       \* "2025-05-25 at 09.00.00_c.opus"
FileTenBUpper == Stamp(2025, 5, 25, 10, 0, 0) \o <<ChUnder, 98>> \o ExtOpusUpper  \* "2025-05-25 at 10.00.00_b.OPUS"
FileBadMonth == Stamp(2025, 13, 25, 10, 0, 0) \o <<ChUnder, 100>> \o ExtOpus \* "2025-13-25 at 10.00.00_d.opus"
FileNoStamp == <<97>> \o ExtOpus                                             \* "a.opus"
FileText == <<110>> \o ExtTxt                                                \* "n.txt"

FilePool == {FileTenB, FileNineC, FileTenBUpper, FileBadMonth, FileNoStamp, FileText}

\* directory listings: distinct names in any order
ListingsUpTo(max) ==
    UNION { { l \in [1..n -> FilePool] : \A a, b \in 1..n : a # b => l[a] # l[b] }
            : n \in 0..max }

\* datetime.fromtimestamp(os.path.getmtime(...)): a datetime, or an exception
DatetimeMin == <<1, 1, 1, 0, 0, 0>>
MTimeFails == <<>>
MTimeOutcomes == { MTimeFails, <<2025, 5, 25, 9, 30, 0>> }

WavName(base) == base \o <<46, 119, 97, 118>>     \* f"{base_name}.wav" in WAV_FILES_DIR
TxtName(base) == base \o ExtTxt                   \* f"{base_name}.txt" in TRANSCRIPTS_DIR
PoolWavs == { WavName(BaseName(f)) : f \in FilePool }
PoolTxts == { TxtName(BaseName(f)) : f \in FilePool }
Absent == <<>>

-----------------------------------------------------------------------------
(* Discovery: lines 143-158 *)

IsOpus(item) == EndsWith(Lower(item), ExtOpus)

\* (dt, item) < (dt, item) as Python compares tuples: the datetimes, then
\* the names (a sort with key=dt would compare the datetimes alone)
TupleLessByDateOnly(a, b) == SeqLess(a[1], b[1])
TupleLess(a, b) ==
    \/ SeqLess(a[1], b[1])
    \/ a[1] = b[1] /\ SeqLess(a[2], b[2])

\* list.sort(): ascending, equal elements keep their order.  The place of
\* s[k] in the result: after every smaller element and after every equal
\* element that stood before it
PlaceOf(s, k) ==
    1 + Cardinality({ j \in 1..Len(s) :
                        \/ TupleLess(s[j], s[k])
                        \/ ~TupleLess(s[k], s[j]) /\ j < k })
SortList(s) ==
    [p \in 1..Len(s) |-> s[CHOOSE k \in 1..Len(s) : PlaceOf(s, k) = p]]
\* line 158 (without it the list would stay in listing order)
Unsorted(s) == s
SortOpusFiles(s) == SortList(s)

\* the items of a listing that need the modification time
NeedsMTime(l) ==
    { l[k] : k \in { j \in 1..Len(l) :
                     IsOpus(l[j]) /\ parse_datetime_from_filename(l[j]).kind # "datetime" } }

ResolveTimestamp(item, mt) ==
    LET r == parse_datetime_from_filename(item) IN
    IF r.kind = "datetime" THEN r.dt
    ELSE IF mt[item] # MTimeFails THEN mt[item]
    ELSE DatetimeMin

\* the scan loop: one (timestamp, item) per .opus item, in listing order
Collect(l, mt) ==
    LET found == SelectSeq(l, IsOpus) IN
    [k \in 1..Len(found) |-> <<ResolveTimestamp(found[k], mt), found[k]>>]

-----------------------------------------------------------------------------
(* The run log *)
Ev(op, item, res) == [op |-> op, item |-> item, res |-> res]
Logged(op, res) == \E k \in 1..Len(log) : log[k].op = op /\ log[k].res = res
CountFor(op, item) == Cardinality({ k \in 1..Len(log) : log[k].op = op /\ log[k].item = item })

-----------------------------------------------------------------------------
(* main() *)

MainInit(starts, listings) ==
    /\ pc = "validate"
    /\ run = 1
    /\ \E st \in starts : envSet = st.set /\ envPath = st.val
    /\ pathBeforeSet = envSet
    /\ pathBefore = envPath
    /\ original_path = <<>>
    /\ path_modified = FALSE
    /\ listing \in listings
    /\ opus_files = <<>>
    /\ idx = 0
    /\ processed_transcripts = <<>>
    /\ wavFiles = [w \in PoolWavs |-> Absent]
    /\ txtWritten = [t \in PoolTxts |-> Absent]
    /\ combinedWritten = Absent
    /\ log = <<>>

\* every directory of up to MaxFiles files, PATH set and without ffmpeg
Init ==
    /\ MainInit({PathIs(OtherDir)}, ListingsUpTo(MaxFiles))
    /\ filename = <<>>
    /\ parsed = NoDatetime
    /\ given = NoInput

\* every state of PATH, directories of up to MaxFilesEnv files
EnvInit ==
    /\ MainInit(PathStarts, ListingsUpTo(MaxFilesEnv))
    /\ filename = <<>>
    /\ parsed = NoDatetime
    /\ given = NoInput

\* lines 95-104: both paths must exist, otherwise main() returns
Validate ==
    /\ pc = "validate"
    /\ \E ffmpegIsFile, audioIsDir \in BOOLEAN :
         IF ~ffmpegIsFile
         THEN /\ log' = Append(log, Ev("abort", 0, "no_ffmpeg"))
              /\ pc' = "done"
         ELSE IF ~audioIsDir
         THEN /\ log' = Append(log, Ev("abort", 0, "no_audio_dir"))
              /\ pc' = "done"
         ELSE /\ log' = log
              /\ pc' = "dirs"
    /\ UNCHANGED <<run, envSet, envPath, pathBeforeSet, pathBefore, original_path,
                   path_modified, listing, opus_files, idx, processed_transcripts,
                   wavFiles, txtWritten, combinedWritten, filename, parsed, given>>

\* lines 106-108: os.makedirs may raise, and nothing catches it
EnsureDirs ==
    /\ pc = "dirs"
    /\ \E created \in BOOLEAN :
         IF created
         THEN log' = log /\ pc' = "path"
         ELSE log' = Append(log, Ev("raise", 0, "makedirs")) /\ pc' = "done"
    /\ UNCHANGED <<run, envSet, envPath, pathBeforeSet, pathBefore, original_path,
                   path_modified, listing, opus_files, idx, processed_transcripts,
                   wavFiles, txtWritten, combinedWritten, filename, parsed, given>>

\* lines 111-114
PathGet == IF envSet THEN envPath ELSE <<>>       \* os.environ.get('PATH', '')
FfmpegInPath(p) ==
    \E k \in 1..Len(Split(Lower(p), ChSemi)) : Split(Lower(p), ChSemi)[k] = Lower(FFMPEG_DIR)

\* lines 110-122
PathSetup ==
    /\ pc = "path"
    /\ original_path' = PathGet
    /\ IF ~FfmpegInPath(PathGet)
       THEN /\ envPath' = FFMPEG_DIR \o PathSep \o PathGet
            /\ envSet' = TRUE
            /\ path_modified' = TRUE
       ELSE /\ UNCHANGED <<envPath, envSet>>
            /\ path_modified' = FALSE
    /\ pc' = "load"
    /\ UNCHANGED <<run, pathBeforeSet, pathBefore, listing, opus_files, idx,
                   processed_transcripts, wavFiles, txtWritten, combinedWritten, log,
                   filename, parsed, given>>

\* lines 129-140: a failure to load is reported and main() returns (line
\* 140; without the return the scan would follow)
AfterLoadFailureContinue == "discover"
AfterLoadFailure == "finally"
LoadModel ==
    /\ pc = "load"
    /\ \E loaded \in BOOLEAN :
         IF loaded
         THEN log' = log /\ pc' = "discover"
         ELSE log' = Append(log, Ev("abort", 0, "load_failed")) /\ pc' = AfterLoadFailure
    /\ UNCHANGED <<run, envSet, envPath, pathBeforeSet, pathBefore, original_path,
                   path_modified, listing, opus_files, idx, processed_transcripts,
                   wavFiles, txtWritten, combinedWritten, filename, parsed, given>>

\* lines 143-164
Discover ==
    /\ pc = "discover"
    /\ \E mt \in [NeedsMTime(listing) -> MTimeOutcomes] :
         LET found == SortOpusFiles(Collect(listing, mt)) IN
         /\ opus_files' = found
         /\ IF found = <<>>
            THEN /\ log' = Append(log, Ev("abort", 0, "no_files"))
                 /\ pc' = "finally"
                 /\ idx' = idx
            ELSE /\ log' = log
                 /\ pc' = "convert"
                 /\ idx' = 1
    /\ processed_transcripts' = <<>>
    /\ UNCHANGED <<run, envSet, envPath, pathBeforeSet, pathBefore, original_path,
                   path_modified, listing, wavFiles, txtWritten, combinedWritten,
                   filename, parsed, given>>

\* the item of the current loop iteration and its paths (lines 167-172)
CurItem == opus_files[idx][2]
CurBase == BaseName(CurItem)
CurWav == WavName(CurBase)
CurTxt == TxtName(CurBase)

\* end of a loop iteration: the next item, or the code after the loop
LoopNextPc == IF idx < Len(opus_files) THEN "convert" ELSE "combine"
LoopNextIdx == IF idx < Len(opus_files) THEN idx + 1 ELSE idx

\* line 177: os.path.exists(wav_path) (the step without the test would
\* convert every time)
WavNeverExists(w) == FALSE
WavExists(w) == wavFiles[w] # Absent

\* lines 176-184, with run_ffmpeg_conversion (lines 52-86): ffmpeg returns 0
\* and has written the file, or fails (non-zero code or exception) and
\* may leave a file behind.  A .wav holds audio of the item it was made from.
Convert ==
    /\ pc = "convert"
    /\ IF WavExists(CurWav)
       THEN /\ log' = Append(log, Ev("convert", idx, "skipped"))
            /\ pc' = "transcribe"
            /\ UNCHANGED <<wavFiles, idx>>
       ELSE \E ok, leftover \in BOOLEAN :
              IF ok
              THEN /\ leftover = TRUE
                   /\ wavFiles' = [wavFiles EXCEPT ![CurWav] = CurItem]
                   /\ log' = Append(log, Ev("convert", idx, "ok"))
                   /\ pc' = "transcribe"
                   /\ idx' = idx
              ELSE /\ wavFiles' = IF leftover
                                  THEN [wavFiles EXCEPT ![CurWav] = CurItem]
                                  ELSE wavFiles
                   /\ log' = Append(log, Ev("convert", idx, "failed"))
                   /\ pc' = LoopNextPc
                   /\ idx' = LoopNextIdx
    /\ UNCHANGED <<run, envSet, envPath, pathBeforeSet, pathBefore, original_path,
                   path_modified, listing, opus_files, processed_transcripts,
                   txtWritten, combinedWritten, filename, parsed, given>>

\* lines 186-212: model.transcribe and the write of the transcript are one
\* try block; FileNotFoundError and any other Exception skip the item
Transcribe ==
    /\ pc = "transcribe"
    /\ \E res \in {"ok", "fnf", "error"} :
         /\ log' = Append(log, Ev("transcribe", idx, res))
         /\ IF res = "ok"
            THEN /\ txtWritten' = [txtWritten EXCEPT ![CurTxt] = wavFiles[CurWav]]
                 /\ processed_transcripts' =
                        Append(processed_transcripts, <<CurBase, CurTxt>>)
            ELSE UNCHANGED <<txtWritten, processed_transcripts>>
    /\ pc' = LoopNextPc
    /\ idx' = LoopNextIdx
    /\ UNCHANGED <<run, envSet, envPath, pathBeforeSet, pathBefore, original_path,
                   path_modified, listing, opus_files, wavFiles, combinedWritten,
                   filename, parsed, given>>

\* lines 214-228: one entry per recorded transcript, in the order recorded;
\* a transcript that cannot be read back leaves an error marker as its body
Unreadable == <<"unreadable">>
Combine ==
    /\ pc = "combine"
    /\ IF processed_transcripts # <<>>
       THEN /\ \E bad \in SUBSET (1..Len(processed_transcripts)) :
                 combinedWritten' = [k \in 1..Len(processed_transcripts) |->
                                [heading |-> processed_transcripts[k][1],
                                 body |-> IF k \in bad THEN Unreadable
                                          ELSE txtWritten[processed_transcripts[k][2]]]]
            /\ log' = Append(log, Ev("combine", 0, "written"))
       ELSE UNCHANGED <<combinedWritten, log>>
    /\ pc' = "finally"
    /\ UNCHANGED <<run, envSet, envPath, pathBeforeSet, pathBefore, original_path,
                   path_modified, listing, opus_files, idx, processed_transcripts,
                   wavFiles, txtWritten, filename, parsed, given>>

\* an exception that no handler inside the try block catches (KeyboardInterrupt,
\* or an OSError from os.listdir or from opening the combined file): control
\* goes to the finally block
TryPcs == {"load", "discover", "convert", "transcribe", "combine"}
Interrupt ==
    /\ pc \in TryPcs
    /\ log' = Append(log, Ev("raise", 0, pc))
    /\ pc' = "finally"
    /\ UNCHANGED <<run, envSet, envPath, pathBeforeSet, pathBefore, original_path,
                   path_modified, listing, opus_files, idx, processed_transcripts,
                   wavFiles, txtWritten, combinedWritten, filename, parsed, given>>

\* lines 230-235: the print of line 235 stands after the if, not inside it
ReportsCompletionIfModified == path_modified
ReportsCompletion == TRUE
Finally ==
    /\ pc = "finally"
    /\ IF path_modified
       THEN envPath' = original_path /\ envSet' = TRUE
       ELSE UNCHANGED <<envPath, envSet>>
    /\ log' = IF ReportsCompletion THEN Append(log, Ev("complete", 0, "printed")) ELSE log
    /\ pc' = "done"
    /\ UNCHANGED <<run, pathBeforeSet, pathBefore, original_path, path_modified,
                   listing, opus_files, idx, processed_transcripts, wavFiles,
                   txtWritten, combinedWritten, filename, parsed, given>>

\* lines 237-238: the script is started again and finds the .wav files and
\* the environment the previous run left.  Transcripts and the combined
\* document of the previous run are never read (lines 195 and 217 open with
\* 'w', line 221 reads only what this run recorded), so txtWritten and
\* combinedWritten start empty again: they hold what the run itself wrote.
Rerun ==
    /\ pc = "done"
    /\ run < MaxRuns
    /\ run' = run + 1
    /\ pc' = "validate"
    /\ pathBeforeSet' = envSet
    /\ pathBefore' = envPath
    /\ original_path' = <<>>
    /\ path_modified' = FALSE
    /\ opus_files' = <<>>
    /\ idx' = 0
    /\ processed_transcripts' = <<>>
    /\ log' = <<>>
    /\ txtWritten' = [t \in PoolTxts |-> Absent]
    /\ combinedWritten' = Absent
    /\ UNCHANGED <<envSet, envPath, listing, wavFiles, filename, parsed, given>>

Next ==
    \/ Validate
    \/ EnsureDirs
    \/ PathSetup
    \/ LoadModel
    \/ Discover
    \/ Convert
    \/ Transcribe
    \/ Combine
    \/ Interrupt
    \/ Finally
    \/ Rerun

Spec == Init /\ [][Next]_vars
EnvSpec == EnvInit /\ [][Next]_vars

-----------------------------------------------------------------------------
(* parse_datetime_from_filename on its own: the file names to try, and the *)
(* call                                                                    *)

TryYears == {0, 1, 2023, 2024, 2100, 9999}
TryMonths == {0, 1, 2, 4, 12, 13}
TryDays == {0, 1, 28, 29, 30, 31, 32}
TryHours == {0, 15, 23, 24, 25}
TryMinutes == {30, 59, 60}
TrySeconds == {16, 59, 60, 99}

Prefix == <<87, 65, 32>>                     \* "WA "
Suffix == <<ChUnder, 102, 52>> \o ExtOpus     \* "_f4.opus"

TryFields ==
    { <<y, mo, d, h, mi, s>> :
        y \in TryYears, mo \in TryMonths, d \in TryDays,
        h \in TryHours, mi \in TryMinutes, s \in TrySeconds }
StampF(f) == Stamp(f[1], f[2], f[3], f[4], f[5], f[6])

\* the shapes of name to try: how a name is spelled from six fields
Shapes == {"one", "two", "embedded", "cut", "noat", "plain"}
NameOf(shape, f) ==
    CASE shape = "one" -> Prefix \o StampF(f) \o Suffix
      \* two date patterns: re.search stops at the first
      [] shape = "two" -> StampF(f) \o <<ChSpace>> \o Stamp(2025, 5, 25, 9, 0, 0) \o ExtOpus
      \* the pattern starts inside a longer run of digits
      [] shape = "embedded" -> <<49>> \o StampF(f) \o <<55>> \o ExtOpus
      \* the last digit is missing
      [] shape = "cut" -> Prefix \o SubSeq(StampF(f), 1, PatternLen - 1) \o Suffix
      \* a space where " at " should be
      [] shape = "noat" -> Prefix \o SubSeq(StampF(f), 1, 10) \o <<ChSpace>>
                                  \o SubSeq(StampF(f), 15, PatternLen) \o Suffix
      [] shape = "plain" -> Prefix \o Suffix

ParseInit ==
    /\ pc = "parse"
    /\ given \in [shape : Shapes, fields : TryFields]
    /\ filename = NameOf(given.shape, given.fields)
    /\ parsed = [kind |-> "pending", dt |-> <<>>]
    /\ run = 0
    /\ envSet = FALSE /\ envPath = <<>>
    /\ pathBeforeSet = FALSE /\ pathBefore = <<>>
    /\ original_path = <<>>
    /\ path_modified = FALSE
    /\ listing = <<>>
    /\ opus_files = <<>>
    /\ idx = 0
    /\ processed_transcripts = <<>>
    /\ wavFiles = [w \in PoolWavs |-> Absent]
    /\ txtWritten = [t \in PoolTxts |-> Absent]
    /\ combinedWritten = Absent
    /\ log = <<>>

\* line 147: dt = parse_datetime_from_filename(item)
ParseCall ==
    /\ pc = "parse"
    /\ parsed' = parse_datetime_from_filename(filename)
    /\ pc' = "parsed"
    /\ UNCHANGED <<filename, given, mainVars>>

ParseNext == ParseCall
ParseSpec == ParseInit /\ [][ParseNext]_vars


-----------------------------------------------------------------------------
(* Vocabulary of the properties *)

ItemOf(i) == opus_files[i][2]
StampOf(i) == opus_files[i][1]
Items == 1..Len(opus_files)
LastEvent == IF log = <<>> THEN Ev("none", 0, "") ELSE log[Len(log)]
CompletionEvent == Ev("complete", 0, "printed")

RaisedInRun == \E k \in 1..Len(log) : log[k].op = "raise"
AbortedRun == \E k \in 1..Len(log) : log[k].op = "abort"
\* the run went through the whole loop and the combination step
RanToEnd == pc = "done" /\ ~RaisedInRun /\ ~AbortedRun

ConvertResult(i, res) == \E k \in 1..Len(log) : log[k] = Ev("convert", i, res)
TranscribeResult(i, res) == \E k \in 1..Len(log) : log[k] = Ev("transcribe", i, res)
TranscriptionFailed(i) == TranscribeResult(i, "fnf") \/ TranscribeResult(i, "error")

HasEntry(base) ==
    /\ combinedWritten # Absent
    /\ \E k \in 1..Len(combinedWritten) : combinedWritten[k].heading = base
TranscriptWritten(base) == txtWritten[TxtName(base)] # Absent

IsOkTranscribe(e) == e.op = "transcribe" /\ e.res = "ok"
OkEvents == SelectSeq(log, IsOkTranscribe)
\* the headings the items that succeeded should give, in the order of opus_files
ExpectedHeadings == [k \in 1..Len(OkEvents) |-> BaseName(ItemOf(OkEvents[k].item))]
Headings == [k \in 1..Len(combinedWritten) |-> combinedWritten[k].heading]

PositionInListing(item) == CHOOSE k \in 1..Len(listing) : listing[k] = item
DistinctTimestamps == \A a, b \in Items : a # b => StampOf(a) # StampOf(b)
SharedBaseName == \E a, b \in Items : a # b /\ BaseName(ItemOf(a)) = BaseName(ItemOf(b))

-----------------------------------------------------------------------------
(* C1 *)

\* C1: when a run of main() has ended, however it ended, PATH is exactly what
\* it was when the run started: present or not, and with the same value.
C1_PathRestored ==
    pc = "done" => (envSet = pathBeforeSet /\ envPath = pathBefore)

-----------------------------------------------------------------------------
(* C2 *)

\* C2: when the discovered items have pairwise distinct timestamps, opus_files
\* holds exactly the .opus items of the listing in strictly ascending order of
\* timestamp, and the headings of the combined document are the base names of
\* the items that succeeded, in that same order.
C2_ChronologicalOrder ==
    (opus_files # <<>> /\ DistinctTimestamps) =>
        /\ \A a, b \in Items : a < b => SeqLess(StampOf(a), StampOf(b))
        /\ { ItemOf(i) : i \in Items } = { listing[k] : k \in { j \in 1..Len(listing) : IsOpus(listing[j]) } }
        /\ \A k \in 1..(Len(OkEvents) - 1) : OkEvents[k].item < OkEvents[k + 1].item
        /\ combinedWritten # Absent => Headings = ExpectedHeadings

\* a finished run over two items listed latest first, both in the document
C2_Witness ==
    /\ pc = "done"
    /\ Len(opus_files) = 2
    /\ DistinctTimestamps
    /\ listing[1] = ItemOf(2)
    /\ combinedWritten # Absent
    /\ Len(combinedWritten) = 2

-----------------------------------------------------------------------------
(* C3 *)

\* C3: in a run that went through the loop, an item whose conversion failed
\* has no transcript file written and no entry in the combined document, and
\* every item whose conversion and transcription succeeded has both.
C3_ConversionFailureIsolated ==
    RanToEnd =>
        \A x \in Items :
            /\ ConvertResult(x, "failed") =>
                   /\ ~TranscriptWritten(BaseName(ItemOf(x)))
                   /\ ~HasEntry(BaseName(ItemOf(x)))
            /\ TranscribeResult(x, "ok") =>
                   /\ TranscriptWritten(BaseName(ItemOf(x)))
                   /\ HasEntry(BaseName(ItemOf(x)))

-----------------------------------------------------------------------------
(* C4 *)

\* C4: a conversion step that finds the target .wav present does not invoke
\* ffmpeg, leaves the file alone and goes on to transcription; a conversion
\* that succeeded leaves the target present, and a .wav once present stays as
\* it is, so a second normalization of the same pair never invokes ffmpeg.
C4_ConvertStep(present) ==
    /\ present => /\ wavFiles' = wavFiles
                  /\ log' = Append(log, Ev("convert", idx, "skipped"))
                  /\ pc' = "transcribe"
    /\ log' = Append(log, Ev("convert", idx, "ok")) => wavFiles'[CurWav] = CurItem
C4_CacheByExistence ==
    [][ /\ (pc = "convert" /\ pc' # "finally") => C4_ConvertStep(wavFiles[CurWav] # Absent)
        /\ \A w \in PoolWavs : wavFiles[w] # Absent => wavFiles'[w] = wavFiles[w] ]_vars

\* the second run skipped the conversion of an item, reusing the .wav made
\* from that item
C4_Witness ==
    /\ run = 2
    /\ \E i \in Items :
         /\ ConvertResult(i, "skipped")
         /\ wavFiles[WavName(BaseName(ItemOf(i)))] = ItemOf(i)
         /\ TranscribeResult(i, "ok")

-----------------------------------------------------------------------------
(* C5 *)

FatalAbort ==
    \/ Logged("abort", "no_ffmpeg")
    \/ Logged("abort", "no_audio_dir")
    \/ Logged("abort", "load_failed")

\* C5: once a run has found ffmpeg or the audio directory missing, or has
\* failed to load the model, it is ending: it invokes no conversion and no
\* transcription and writes no transcript and no combined document.
C5_FatalAbortProcessesNothing ==
    FatalAbort =>
        /\ pc \in {"finally", "done"}
        /\ opus_files = <<>>
        /\ \A k \in 1..Len(log) : log[k].op \notin {"convert", "transcribe", "combine"}
        /\ \A t \in PoolTxts : txtWritten[t] = Absent
        /\ combinedWritten = Absent

\* a second run that ended on a model that did not load, over a directory
\* that has audio and a .wav from the first run
C5_Witness ==
    /\ pc = "done"
    /\ run = 2
    /\ Logged("abort", "load_failed")
    /\ \E k \in 1..Len(listing) : IsOpus(listing[k])
    /\ \E w \in PoolWavs : wavFiles[w] # Absent

-----------------------------------------------------------------------------
(* C6 *)

\* the dates and times of the calendar, stated without the constructor
LongMonths == {1, 3, 5, 7, 8, 10, 12}
OnCalendar(y, mo, d, h, mi, s) ==
    /\ y \in 1..9999
    /\ \/ mo \in LongMonths /\ d \in 1..31
       \/ mo \in {4, 6, 9, 11} /\ d \in 1..30
       \/ mo = 2 /\ d \in 1..28
       \/ mo = 2 /\ d = 29 /\ (y % 400 = 0 \/ (y % 4 = 0 /\ y % 100 # 0))
    /\ h \in 0..23
    /\ mi \in 0..59
    /\ s \in 0..59
Decoded(y, mo, d, h, mi, s) ==
    IF OnCalendar(y, mo, d, h, mi, s)
    THEN [kind |-> "datetime", dt |-> <<y, mo, d, h, mi, s>>]
    ELSE NoDatetime

DecodedF(f) == Decoded(f[1], f[2], f[3], f[4], f[5], f[6])

\* C6: the parser never raises; for a name whose (first) date pattern spells a
\* date and time of the calendar it returns exactly that timestamp; when a
\* field of the pattern is out of range, and when the name has no pattern, it
\* returns "no timestamp".
C6_ParserDecodesOrDeclines ==
    pc = "parsed" =>
        /\ parsed.kind # "raise"
        /\ given.shape \in {"one", "two", "embedded"} => parsed = DecodedF(given.fields)
        /\ given.shape \in {"cut", "noat", "plain"} => parsed = NoDatetime

\* the parser has declined a name that has the pattern, with month 13
C6_Witness ==
    /\ pc = "parsed"
    /\ filename = Prefix \o Stamp(2024, 13, 1, 15, 30, 16) \o Suffix
    /\ parsed = NoDatetime

-----------------------------------------------------------------------------
(* C7 *)

\* C7: every entry of the combined document has the base name of exactly one
\* discovered item, the .wav an item is transcribed from was made from that
\* item, and no two items write the same transcript file.
C7_ItemsIsolated ==
    /\ combinedWritten # Absent =>
           \A k \in 1..Len(combinedWritten) :
               Cardinality({ i \in Items : BaseName(ItemOf(i)) = combinedWritten[k].heading }) = 1
    /\ \A i \in Items :
           (\E k \in 1..Len(log) : log[k].op = "transcribe" /\ log[k].item = i)
               => wavFiles[WavName(BaseName(ItemOf(i)))] = ItemOf(i)
    /\ \A i, j \in Items :
           (i # j /\ TranscribeResult(i, "ok") /\ TranscribeResult(j, "ok"))
               => TxtName(BaseName(ItemOf(i))) # TxtName(BaseName(ItemOf(j)))

-----------------------------------------------------------------------------
(* C8 *)

\* C8, as claimed: items with equal timestamps stand in opus_files in the
\* order in which the directory listed them.
C8_TiesKeepListingOrder ==
    \A a, b \in Items :
        (a < b /\ StampOf(a) = StampOf(b))
            => PositionInListing(ItemOf(a)) < PositionInListing(ItemOf(b))

\* C8, amended: items with equal timestamps (the sentinel included) stand in
\* opus_files in ascending order of file name, whatever the order of the
\* listing, and the entries of the combined document follow opus_files.
C8_TiesOrderedByName ==
    /\ \A a, b \in Items :
           (a < b /\ StampOf(a) = StampOf(b)) => SeqLess(ItemOf(a), ItemOf(b))
    /\ \A k \in 1..(Len(OkEvents) - 1) : OkEvents[k].item < OkEvents[k + 1].item
    /\ combinedWritten # Absent => Headings = ExpectedHeadings

\* two items with different base names, both at the sentinel timestamp, listed
\* in descending order of name, and both in the document
C8_Witness ==
    /\ pc = "done"
    /\ Len(opus_files) = 2
    /\ StampOf(1) = DatetimeMin
    /\ StampOf(2) = DatetimeMin
    /\ listing[1] = ItemOf(2)
    /\ ~SharedBaseName
    /\ combinedWritten # Absent
    /\ Len(combinedWritten) = 2

-----------------------------------------------------------------------------
(* C9 *)

ConvertEvents == SelectSeq(log, LAMBDA e : e.op = "convert")

\* C9: in a run that went through the loop, the items were attempted once
\* each, in the order of opus_files, with at most one invocation of ffmpeg and
\* of the model per item, and an item whose transcription failed has no entry
\* in the combined document.
C9_NoRetryNoBatchAbort ==
    (RanToEnd /\ opus_files # <<>>) =>
        /\ [k \in 1..Len(ConvertEvents) |-> ConvertEvents[k].item] = [k \in Items |-> k]
        /\ \A x \in Items : CountFor("transcribe", x) <= 1
        /\ \A x \in Items : TranscriptionFailed(x) => ~HasEntry(BaseName(ItemOf(x)))

-----------------------------------------------------------------------------
(* C10 *)

\* C10, as claimed: every run that has ended has printed the completion
\* report as the last thing it did.
C10_CompletionAlwaysReported ==
    pc = "done" => LastEvent = CompletionEvent

\* the run got past the validation of the paths and the creation of the
\* output directories, into the try block
EnteredTry ==
    /\ ~Logged("abort", "no_ffmpeg")
    /\ ~Logged("abort", "no_audio_dir")
    /\ ~Logged("raise", "makedirs")

\* how far a run has got: every step of a run takes it further
RunRank ==
    CASE pc = "validate" -> 0
      [] pc = "dirs" -> 1
      [] pc = "path" -> 2
      [] pc = "load" -> 3
      [] pc = "discover" -> 4
      [] pc = "convert" -> 3 + 2 * idx
      [] pc = "transcribe" -> 4 + 2 * idx
      [] pc = "combine" -> 5 + 2 * Len(opus_files)
      [] pc = "finally" -> 6 + 2 * Len(opus_files)
      [] pc = "done" -> 7 + 2 * Len(opus_files)

\* the step a run takes next when nothing is raised (the scan of the
\* directory, which has no condition but its place in main(), left aside)
RunStep ==
    \/ Validate \/ EnsureDirs \/ PathSetup \/ LoadModel
    \/ Convert \/ Transcribe \/ Combine \/ Finally

\* C10, amended: a run that has ended has printed the completion report, as
\* the last thing it did, exactly when it got into the try block; and a run
\* that has not ended always has a next step, which takes it further, so that
\* a run that gets into the try block ends with the report as long as the
\* external calls return.
C10_CompletionReportedOnceEntered ==
    /\ [](pc = "done" => (LastEvent = CompletionEvent <=> EnteredTry))
    /\ [](pc \notin {"done", "discover"} => ENABLED RunStep)
    /\ [][pc # "done" => RunRank' > RunRank]_vars

\* a run that did not have to change PATH ended on a model that did not load,
\* and reported completion
C10_Witness ==
    /\ pc = "done"
    /\ ~path_modified
    /\ Logged("abort", "load_failed")
    /\ LastEvent = CompletionEvent

====
